---- MODULE Spec2Model ----
(***************************************************************************)
(* A model of the http2parse frame codec (src/src/lib.rs, kind.rs,         *)
(* flag.rs, frame.rs, payload.rs).                                         *)
(*                                                                         *)
(* Representation of the Rust values:                                      *)
(*   u8            a number in 0..255                                      *)
(*   u16           a number in 0..65535                                    *)
(*   u32           a record [hi, lo] of two 16-bit halves (the model       *)
(*                 checker's integers are 32-bit signed, so a u32 with     *)
(*                 bit 31 set does not fit in one of them)                 *)
(*   u64           a record [w3, w2, w1, w0] of four 16-bit words          *)
(*   &[u8]         a sequence of bytes                                     *)
(*   Option<T>     None or Some(v)                                         *)
(*   Result<T, E>  Ok(v) or Err(e); Panic is the outcome of a call that    *)
(*                 panics (an index or slice range out of bounds)          *)
(* FrameHeader.length is a u32 in the code; the model keeps it a plain     *)
(* number because every header it handles has length below 2^24.           *)
(***************************************************************************)
EXTENDS Integers, Sequences, FiniteSets, TLC

VARIABLES
    target,   \* byte order of the build target: "big" or "little"
    pc,       \* position of the caller
    hdr,      \* the FrameHeader handed to Payload::parse / Frame::parse
    frame,    \* the Frame (or FrameHeader) handed to encode
    wire,     \* the byte buffer
    wrote,    \* what encode returned
    hres,     \* what FrameHeader::parse returned
    pres      \* what Frame::parse returned

vars == <<target, pc, hdr, frame, wire, wrote, hres, pres>>

----------------------------------------------------------------------------
(* Bounds of the model *)

\* longest declared payload length of a received header
MaxLen == 12
\* longest opaque byte block of an encoded payload
MaxBlock == 2
\* most settings in an encoded Settings payload
MaxSettings == 1
\* most spare bytes behind the encoded frame in the output buffer
MaxSlack == 1

----------------------------------------------------------------------------
(* Values *)

Byte == 0..255

None == [tag |-> "None"]
Some(v) == [tag |-> "Some", val |-> v]

Ok(v) == [tag |-> "Ok", val |-> v]
Err(e) == [tag |-> "Err", err |-> e]
Panic == [tag |-> "Panic"]
NoResult == [tag |-> "NoResult"]

U32(h, l) == [hi |-> h, lo |-> l]
U64(a, b, c, d) == [w3 |-> a, w2 |-> b, w1 |-> c, w0 |-> d]

Min(a, b) == IF a < b THEN a ELSE b

\* &buf[n..]
DropFirst(buf, n) == SubSeq(buf, n + 1, Len(buf))
\* a variant of &buf[..n] that keeps the whole buffer
TakeFirst_whole(buf, n) == buf

\* &buf[..n]
TakeFirst(buf, n) == SubSeq(buf, 1, n)

\* a & b on bytes
RECURSIVE BitAnd(_, _)
BitAnd(a, b) ==
    IF a = 0 \/ b = 0 THEN 0
    ELSE (a % 2) * (b % 2) + 2 * BitAnd(a \div 2, b \div 2)

\* a | b on bytes
BitOr(a, b) == a + b - BitAnd(a, b)

\* !a on a byte
BitNot(a) == 255 - a

----------------------------------------------------------------------------
(* lib.rs: errors *)

Short == [e |-> "Short"]
BadFlag(b) == [e |-> "BadFlag", byte |-> b]
TooMuchPadding(b) == [e |-> "TooMuchPadding", byte |-> b]
PayloadLengthTooShort == [e |-> "PayloadLengthTooShort"]
PartialSettingLength == [e |-> "PartialSettingLength"]
InvalidPayloadLength == [e |-> "InvalidPayloadLength"]

FRAME_HEADER_BYTES == 9

----------------------------------------------------------------------------
(* lib.rs: scalar codecs *)

\* byteorder::BigEndian::read_u32: panics on fewer than 4 bytes
read_u32(buf) ==
    IF Len(buf) < 4 THEN Panic
    ELSE Ok(U32(buf[1] * 256 + buf[2], buf[3] * 256 + buf[4]))

\* byteorder::BigEndian::read_u64: panics on fewer than 8 bytes
read_u64(buf) ==
    IF Len(buf) < 8 THEN Panic
    ELSE Ok(U64(buf[1] * 256 + buf[2], buf[3] * 256 + buf[4],
                buf[5] * 256 + buf[6], buf[7] * 256 + buf[8]))

\* buf[at..at+n] = bytes, for a range inside buf
WriteAt(buf, at, bytes) ==
    [i \in 1..Len(buf) |->
        IF i > at /\ i <= at + Len(bytes) THEN bytes[i - at] ELSE buf[i]]

\* the result of an encoder: the buffer after the call and the count returned
Wrote(buf, n) == [tag |-> "Ok", buf |-> buf, n |-> n]

\* a variant of encode_u24 that writes the three bytes low byte first
encode_u24_low_first(buf, val) ==
    IF Len(buf) < 3 THEN Panic
    ELSE Wrote(WriteAt(buf, 0, <<val % 256,
                                 (val \div 256) % 256,
                                 (val \div 65536) % 256>>), 3)

encode_u24(buf, val) ==
    IF Len(buf) < 3 THEN Panic
    ELSE Wrote(WriteAt(buf, 0, <<(val \div 65536) % 256,
                                 (val \div 256) % 256,
                                 val % 256>>), 3)

encode_u32(buf, val) ==
    IF Len(buf) < 4 THEN Panic
    ELSE Wrote(WriteAt(buf, 0, <<val.hi \div 256, val.hi % 256,
                                 val.lo \div 256, val.lo % 256>>), 4)

encode_u64(buf, val) ==
    IF Len(buf) < 8 THEN Panic
    ELSE Wrote(WriteAt(buf, 0, <<val.w3 \div 256, val.w3 % 256,
                                 val.w2 \div 256, val.w2 % 256,
                                 val.w1 \div 256, val.w1 % 256,
                                 val.w0 \div 256, val.w0 % 256>>), 8)

\* a variant of StreamIdentifier::parse that keeps the reserved bit
StreamIdentifier_parse_unmasked(buf) == read_u32(buf)

\* StreamIdentifier::parse: read_u32(buf) & ((1 << 31) - 1)
StreamIdentifier_parse(buf) ==
    LET r == read_u32(buf)
    IN  IF r.tag = "Panic" THEN Panic
        ELSE Ok(U32(r.val.hi % 32768, r.val.lo))

\* a variant of StreamIdentifier::encode that clears the reserved bit
StreamIdentifier_encode_masked(id, buf) == encode_u32(buf, U32(id.hi % 32768, id.lo))

StreamIdentifier_encode(id, buf) == encode_u32(buf, id)

ErrorCode_parse(buf) == read_u32(buf)

ErrorCode_encode(code, buf) == encode_u32(buf, code)

\* a variant of SizeIncrement::parse that clears the top bit, as
\* StreamIdentifier::parse does
SizeIncrement_parse_masked(buf) == StreamIdentifier_parse(buf)

SizeIncrement_parse(buf) == read_u32(buf)

SizeIncrement_encode(inc, buf) == encode_u32(buf, inc)

----------------------------------------------------------------------------
(* kind.rs *)

Kinds == {"Data", "Headers", "Priority", "Reset", "Settings", "PushPromise",
          "Ping", "GoAway", "WindowUpdate", "Continuation", "Unregistered"}

Kind_new(byte) ==
    CASE byte = 0 -> "Data"
      [] byte = 1 -> "Headers"
      [] byte = 2 -> "Priority"
      [] byte = 3 -> "Reset"
      [] byte = 4 -> "Settings"
      [] byte = 5 -> "PushPromise"
      [] byte = 6 -> "Ping"
      [] byte = 7 -> "GoAway"
      [] byte = 8 -> "WindowUpdate"
      [] byte = 9 -> "Continuation"
      [] OTHER -> "Unregistered"

Kind_encode(kind) ==
    CASE kind = "Data" -> 0
      [] kind = "Headers" -> 1
      [] kind = "Priority" -> 2
      [] kind = "Reset" -> 3
      [] kind = "Settings" -> 4
      [] kind = "PushPromise" -> 5
      [] kind = "Ping" -> 6
      [] kind = "GoAway" -> 7
      [] kind = "WindowUpdate" -> 8
      [] kind = "Continuation" -> 9
      [] kind = "Unregistered" -> 255

----------------------------------------------------------------------------
(* flag.rs: a Flag is its bits, a byte *)

END_STREAM == 1
ACK == 1
END_HEADERS == 4
PADDED == 8
PRIORITY == 32

\* Flag::all(): the union of the declared flags
Flag_all == BitOr(BitOr(BitOr(BitOr(END_STREAM, ACK), END_HEADERS), PADDED), PRIORITY)

Flag_empty == 0

\* a variant of Flag::from_bits that drops the unknown bits (from_bits_truncate)
Flag_from_bits_truncate(bits) == Some(BitAnd(bits, Flag_all))

\* Flag::from_bits as the bitflags! macro generates it
Flag_from_bits(bits) ==
    IF BitAnd(bits, BitNot(Flag_all)) # 0 THEN None ELSE Some(bits)

\* Flag::new: Result<Flag, ()>
Flag_new(data) ==
    LET v == Flag_from_bits(data)
    IN  IF v.tag = "Some" THEN Ok(v.val) ELSE Err([e |-> "()"])

\* Flag::contains as the bitflags! macro generates it
Flag_contains(flag, other) == BitAnd(flag, other) = other

----------------------------------------------------------------------------
(* frame.rs: FrameHeader *)

FrameHeader(length, kind, flag, id) ==
    [length |-> length, kind |-> kind, flag |-> flag, id |-> id]

FrameHeader_parse(buf) ==
    IF Len(buf) < FRAME_HEADER_BYTES THEN Err(Short)
    ELSE LET flag == Flag_new(buf[5])
             id == StreamIdentifier_parse(DropFirst(buf, 5))
         IN  IF flag.tag = "Err" THEN Err(BadFlag(buf[5]))
             ELSE IF id.tag = "Panic" THEN Panic
             ELSE Ok(FrameHeader(buf[1] * 65536 + buf[2] * 256 + buf[3],
                                 Kind_new(buf[4]), flag.val, id.val))

FrameHeader_encode(h, buf) ==
    LET a == encode_u24(buf, h.length)
    IN  IF a.tag = "Panic" \/ Len(buf) < 5 THEN Panic
        ELSE LET b == WriteAt(a.buf, 3, <<Kind_encode(h.kind), h.flag>>)
                 c == StreamIdentifier_encode(h.id, DropFirst(b, 5))
             IN  IF c.tag = "Panic" THEN Panic
                 ELSE Wrote(TakeFirst(b, 5) \o c.buf, FRAME_HEADER_BYTES)

----------------------------------------------------------------------------
(* payload.rs *)

PRIORITY_BYTES == 5
PADDING_BYTES == 1

\* mem::size_of::<Setting>() of the packed (u16, u32) struct
SizeOfSetting == 6

ParserSettings(h) ==
    [padding |-> Flag_contains(h.flag, PADDED),
     priority |-> Flag_contains(h.flag, PRIORITY)]

Priority(exclusive, dependency, weight) ==
    [exclusive |-> exclusive, dependency |-> dependency, weight |-> weight]

\* a variant of Priority::parse that hands back the whole buffer as the rest
Priority_parse_keeps_prefix(present, buf) ==
    IF present
    THEN IF Len(buf) < 5 THEN Panic
         ELSE Ok([rest |-> buf,
                  priority |-> Some(Priority(BitAnd(buf[1], 127) # buf[1],
                                             StreamIdentifier_parse(buf).val,
                                             buf[5]))])
    ELSE Ok([rest |-> buf, priority |-> None])

\* a variant of Priority::parse that takes the weight from the byte before it
Priority_parse_weight_off_by_one(present, buf) ==
    IF present
    THEN IF Len(buf) < 5 THEN Panic
         ELSE Ok([rest |-> DropFirst(buf, 5),
                  priority |-> Some(Priority(BitAnd(buf[1], 127) # buf[1],
                                             StreamIdentifier_parse(buf).val,
                                             buf[4]))])
    ELSE Ok([rest |-> buf, priority |-> None])

\* Priority::parse: Ok(<<rest, Option<Priority>>>); &buf[5..], buf[0], buf[4]
\* and read_u32 panic on a buffer shorter than 5 bytes
Priority_parse(present, buf) ==
    IF present
    THEN IF Len(buf) < 5 THEN Panic
         ELSE Ok([rest |-> DropFirst(buf, 5),
                  priority |-> Some(Priority(BitAnd(buf[1], 127) # buf[1],
                                             StreamIdentifier_parse(buf).val,
                                             buf[5]))])
    ELSE Ok([rest |-> buf, priority |-> None])

Priority_encode(p, buf) ==
    LET dependency ==
            IF p.exclusive
            THEN U32(IF p.dependency.hi < 32768 THEN p.dependency.hi + 32768
                     ELSE p.dependency.hi, p.dependency.lo)
            ELSE p.dependency
        a == StreamIdentifier_encode(dependency, buf)
    IN  IF a.tag = "Panic" \/ Len(buf) < PRIORITY_BYTES THEN Panic
        ELSE Wrote(WriteAt(a.buf, PRIORITY_BYTES - 1, <<p.weight>>), PRIORITY_BYTES)

Setting(identifier, value) == [identifier |-> identifier, value |-> value]

\* Setting::identifier: Option<SettingIdentifier>
Setting_identifier(s) ==
    CASE s.identifier = 1 -> Some("HeaderTableSize")
      [] s.identifier = 2 -> Some("EnablePush")
      [] s.identifier = 3 -> Some("MaxConcurrentStreams")
      [] s.identifier = 4 -> Some("InitialWindowSize")
      [] s.identifier = 5 -> Some("MaxFrameSize")
      [] OTHER -> None

Setting_value(s) == s.value

\* the six bytes of one packed Setting in the memory of the build target
SettingMemory(s) ==
    IF target = "big"
    THEN <<s.identifier \div 256, s.identifier % 256,
           s.value.hi \div 256, s.value.hi % 256,
           s.value.lo \div 256, s.value.lo % 256>>
    ELSE <<s.identifier % 256, s.identifier \div 256,
           s.value.lo % 256, s.value.lo \div 256,
           s.value.hi % 256, s.value.hi \div 256>>

\* the packed Setting that six bytes of memory are on the build target
SettingAt(b) ==
    IF target = "big"
    THEN Setting(b[1] * 256 + b[2], U32(b[3] * 256 + b[4], b[5] * 256 + b[6]))
    ELSE Setting(b[2] * 256 + b[1], U32(b[6] * 256 + b[5], b[4] * 256 + b[3]))

\* Setting::to_bytes: the settings' memory viewed as bytes
RECURSIVE Setting_to_bytes(_)
Setting_to_bytes(settings) ==
    IF settings = <<>> THEN <<>>
    ELSE SettingMemory(Head(settings)) \o Setting_to_bytes(Tail(settings))

\* Setting::from_bytes: the bytes viewed as bytes.len() / 6 settings
Setting_from_bytes(bytes) ==
    [i \in 1..(Len(bytes) \div SizeOfSetting) |->
        SettingAt(SubSeq(bytes, (i - 1) * SizeOfSetting + 1, i * SizeOfSetting))]

\* a variant of trim_padding that strips the padding and keeps the pad length
\* byte
trim_padding_keeps_length_byte(settings, h, buf) ==
    IF settings.padding
    THEN IF Len(buf) = 0 THEN Panic
         ELSE LET pad_length == buf[1]
              IN  IF pad_length > h.length THEN Err(TooMuchPadding(pad_length))
                  ELSE IF h.length - pad_length < 1 \/ h.length - pad_length > Len(buf)
                       THEN Panic
                       ELSE Ok(SubSeq(buf, 1, h.length - pad_length))
    ELSE Ok(buf)

\* trim_padding: buf[0] panics on an empty buffer, &buf[1..end] panics when
\* end < 1 or end > buf.len()
trim_padding(settings, h, buf) ==
    IF settings.padding
    THEN IF Len(buf) = 0 THEN Panic
         ELSE LET pad_length == buf[1]
              IN  IF pad_length > h.length THEN Err(TooMuchPadding(pad_length))
                  ELSE IF h.length - pad_length < 1 \/ h.length - pad_length > Len(buf)
                       THEN Panic
                       ELSE Ok(SubSeq(buf, 2, h.length - pad_length))
    ELSE Ok(buf)

\* encode_memory: dst.write(src) copies as much of src as dst holds
encode_memory(src, dst) ==
    LET n == Min(Len(src), Len(dst))
    IN  Wrote(WriteAt(dst, 0, TakeFirst(src, n)), n)

\* the result r of an encoder run on &mut buf[at..], seen in buf; the count
\* grows by add
Into(buf, at, r, add) ==
    IF r.tag = "Panic" THEN Panic
    ELSE Wrote(TakeFirst(buf, at) \o r.buf, r.n + add)

----------------------------------------------------------------------------
(* payload.rs: Payload *)

Data(data) == [v |-> "Data", data |-> data]
Headers(priority, block) == [v |-> "Headers", priority |-> priority, block |-> block]
PriorityPayload(priority) == [v |-> "Priority", priority |-> priority]
Reset(err) == [v |-> "Reset", err |-> err]
Settings(settings) == [v |-> "Settings", settings |-> settings]
PushPromise(promised, block) ==
    [v |-> "PushPromise", promised |-> promised, block |-> block]
Ping(data) == [v |-> "Ping", data |-> data]
GoAway(last, error, data) ==
    [v |-> "GoAway", last |-> last, error |-> error, data |-> data]
WindowUpdate(increment) == [v |-> "WindowUpdate", increment |-> increment]
Continuation(block) == [v |-> "Continuation", block |-> block]
\* a variant of Payload::Unregistered that builds the neighbouring variant
Unregistered_as_continuation(block) == [v |-> "Continuation", block |-> block]

Unregistered(block) == [v |-> "Unregistered", block |-> block]

\* Payload::kind: each variant's Kind carries the variant's name
Payload_kind(p) == p.v

\* Payload::priority
Payload_priority(p) ==
    CASE p.v = "Priority" -> Some(p.priority)
      [] p.v = "Headers" -> p.priority
      [] OTHER -> None

parse_data(h, buf, settings) ==
    LET t == trim_padding(settings, h, buf)
    IN  IF t.tag # "Ok" THEN t ELSE Ok(Data(t.val))

parse_headers(h, buf, settings) ==
    LET t == trim_padding(settings, h, buf)
    IN  IF t.tag # "Ok" THEN t
        ELSE LET r == Priority_parse(settings.priority, t.val)
             IN  IF r.tag # "Ok" THEN r
                 ELSE Ok(Headers(r.val.priority, r.val.rest))

parse_priority(buf) ==
    LET r == Priority_parse(TRUE, buf)
    IN  IF r.tag # "Ok" THEN r ELSE Ok(PriorityPayload(r.val.priority.val))

parse_reset(h, buf) ==
    IF h.length < 4 THEN Err(PayloadLengthTooShort)
    ELSE LET c == ErrorCode_parse(buf)
         IN  IF c.tag # "Ok" THEN c ELSE Ok(Reset(c.val))

parse_settings(h, buf) ==
    IF h.length % SizeOfSetting # 0 THEN Err(PartialSettingLength)
    ELSE IF h.length > Len(buf) THEN Panic
    ELSE Ok(Settings(Setting_from_bytes(TakeFirst(buf, h.length))))

parse_ping(h, buf) ==
    IF h.length # 8 THEN Err(InvalidPayloadLength)
    ELSE LET d == read_u64(buf)
         IN  IF d.tag # "Ok" THEN d ELSE Ok(Ping(d.val))

\* a variant of parse_goaway that reads the error code where the last stream
\* id is
parse_goaway_error_at_start(h, buf) ==
    IF h.length < 8 THEN Err(PayloadLengthTooShort)
    ELSE LET last == StreamIdentifier_parse(buf)
             error == ErrorCode_parse(buf)
         IN  IF last.tag # "Ok" \/ error.tag # "Ok" \/ Len(buf) < 8 THEN Panic
             ELSE Ok(GoAway(last.val, error.val, DropFirst(buf, 8)))

parse_goaway(h, buf) ==
    IF h.length < 8 THEN Err(PayloadLengthTooShort)
    ELSE LET last == StreamIdentifier_parse(buf)
             error == IF Len(buf) < 4 THEN Panic
                      ELSE ErrorCode_parse(DropFirst(buf, 4))
         IN  IF last.tag # "Ok" \/ error.tag # "Ok" \/ Len(buf) < 8 THEN Panic
             ELSE Ok(GoAway(last.val, error.val, DropFirst(buf, 8)))

parse_window_update(h, buf) ==
    IF h.length # 4 THEN Err(InvalidPayloadLength)
    ELSE LET i == SizeIncrement_parse(buf)
         IN  IF i.tag # "Ok" THEN i ELSE Ok(WindowUpdate(i.val))

parse_push_promise(h, buf, settings) ==
    LET t == trim_padding(settings, h, buf)
    IN  IF t.tag # "Ok" THEN t
        ELSE IF Len(t.val) < 4 THEN Err(PayloadLengthTooShort)
        ELSE Ok(PushPromise(StreamIdentifier_parse(t.val).val, DropFirst(t.val, 4)))

\* a variant of min_payload_length that forgets the pad length byte when both
\* flags are set
min_payload_length_priority_only(settings) ==
    IF settings.priority THEN PRIORITY_BYTES
    ELSE IF settings.padding THEN PADDING_BYTES
    ELSE 0

min_payload_length(settings) ==
    IF settings.priority /\ settings.padding THEN PRIORITY_BYTES + PADDING_BYTES
    ELSE IF settings.priority THEN PRIORITY_BYTES
    ELSE IF settings.padding THEN PADDING_BYTES
    ELSE 0

Payload_parse(h, buf0) ==
    LET settings == ParserSettings(h)
    IN  IF Len(buf0) < h.length THEN Err(Short)
        ELSE IF h.length < min_payload_length(settings)
        THEN Err(PayloadLengthTooShort)
        ELSE LET buf == TakeFirst(buf0, h.length)
             IN  CASE h.kind = "Data" -> parse_data(h, buf, settings)
                   [] h.kind = "Headers" -> parse_headers(h, buf, settings)
                   [] h.kind = "Priority" -> parse_priority(buf)
                   [] h.kind = "Reset" -> parse_reset(h, buf)
                   [] h.kind = "Settings" -> parse_settings(h, buf)
                   [] h.kind = "Ping" -> parse_ping(h, buf)
                   [] h.kind = "GoAway" -> parse_goaway(h, buf)
                   [] h.kind = "WindowUpdate" -> parse_window_update(h, buf)
                   [] h.kind = "PushPromise" -> parse_push_promise(h, buf, settings)
                   [] h.kind = "Continuation" -> Ok(Continuation(buf))
                   [] h.kind = "Unregistered" -> Ok(Unregistered(buf))

encode_headers(p, buf) ==
    LET a == IF p.priority.tag = "Some" THEN Priority_encode(p.priority.val, buf)
             ELSE Wrote(buf, 0)
    IN  IF a.tag = "Panic" THEN Panic
        ELSE Into(a.buf, a.n, encode_memory(p.block, DropFirst(a.buf, a.n)), a.n)

encode_goaway(p, buf) ==
    LET a == StreamIdentifier_encode(p.last, buf)
    IN  IF a.tag = "Panic" THEN Panic
        ELSE LET b == Into(a.buf, a.n, ErrorCode_encode(p.error, DropFirst(a.buf, a.n)), 0)
             IN  IF b.tag = "Panic" THEN Panic
                 ELSE Into(b.buf, a.n + b.n,
                           encode_memory(p.data, DropFirst(b.buf, a.n + b.n)),
                           a.n + b.n)

\* a variant of the PushPromise arm of Payload::encode that returns the
\* block's byte count alone
encode_push_promise_block_count(p, buf) ==
    LET a == StreamIdentifier_encode(p.promised, buf)
    IN  IF a.tag = "Panic" THEN Panic
        ELSE Into(a.buf, 4, encode_memory(p.block, DropFirst(a.buf, 4)), 0)

encode_push_promise(p, buf) ==
    LET a == StreamIdentifier_encode(p.promised, buf)
    IN  IF a.tag = "Panic" THEN Panic
        ELSE Into(a.buf, 4, encode_memory(p.block, DropFirst(a.buf, 4)), 4)

Payload_encode(p, buf) ==
    CASE p.v = "Data" -> encode_memory(p.data, buf)
      [] p.v = "Headers" -> encode_headers(p, buf)
      [] p.v = "Reset" -> ErrorCode_encode(p.err, buf)
      [] p.v = "Settings" -> encode_memory(Setting_to_bytes(p.settings), buf)
      [] p.v = "Ping" -> encode_u64(buf, p.data)
      [] p.v = "GoAway" -> encode_goaway(p, buf)
      [] p.v = "WindowUpdate" -> SizeIncrement_encode(p.increment, buf)
      [] p.v = "PushPromise" -> encode_push_promise(p, buf)
      [] p.v = "Priority" -> Priority_encode(p.priority, buf)
      [] p.v = "Continuation" -> encode_memory(p.block, buf)
      [] p.v = "Unregistered" -> encode_memory(p.block, buf)

Payload_encoded_len(p) ==
    CASE p.v = "Data" -> Len(p.data)
      [] p.v = "Headers" ->
            (IF p.priority.tag = "Some" THEN 5 ELSE 0) + Len(p.block)
      [] p.v = "Reset" -> 4
      [] p.v = "Settings" -> Len(p.settings) * SizeOfSetting
      [] p.v = "Ping" -> 8
      [] p.v = "GoAway" -> 4 + 4 + Len(p.data)
      [] p.v = "WindowUpdate" -> 4
      [] p.v = "PushPromise" -> 4 + Len(p.block)
      [] p.v = "Priority" -> 5
      [] p.v = "Continuation" -> Len(p.block)
      [] p.v = "Unregistered" -> Len(p.block)

----------------------------------------------------------------------------
(* frame.rs: Frame *)

Frame(h, payload) == [header |-> h, payload |-> payload]

Frame_parse(h, buf) ==
    LET p == Payload_parse(h, buf)
    IN  IF p.tag # "Ok" THEN p ELSE Ok(Frame(h, p.val))

Frame_encode(f, buf) ==
    LET a == FrameHeader_encode(f.header, buf)
    IN  IF a.tag = "Panic" THEN Panic
        ELSE Into(a.buf, FRAME_HEADER_BYTES,
                  Payload_encode(f.payload, DropFirst(a.buf, FRAME_HEADER_BYTES)),
                  FRAME_HEADER_BYTES)

Frame_encoded_len(f) == FRAME_HEADER_BYTES + Payload_encoded_len(f.payload)

\* FrameHeader::rand_for_payload, with the stream identifier given
rand_for_payload(id, payload) ==
    FrameHeader(Payload_encoded_len(payload), Payload_kind(payload),
                BitOr(Flag_empty,
                      IF Payload_priority(payload).tag = "Some"
                      THEN PRIORITY ELSE Flag_empty),
                id)

----------------------------------------------------------------------------
(* The callers' inputs *)

Targets == {"big", "little"}

\* a buffer of n bytes, all equal to fill
Filled(n, fill) == [i \in 1..n |-> fill]

Fills == {0, 255}

\* stream identifiers, with and without bit 31
IdSamples == {U32(0, 1), U32(1543, 2057), U32(32767, 65535),
              U32(32768, 0), U32(65535, 65535)}

U32Samples == {U32(0, 100), U32(32768, 1), U32(65535, 65535)}

U64Samples == {U64(0, 0, 0, 1), U64(16036, 25831, 49152, 7),
               U64(65535, 65535, 65535, 65535)}

\* every Flag value: the bytes Flag::from_bits accepts
Flags == {b \in Byte : Flag_from_bits(b).tag = "Some"}

(* received payloads: a header and a buffer *)

FlagSamples == {Flag_empty, PADDED, PRIORITY, BitOr(PADDED, PRIORITY),
                BitOr(END_STREAM, END_HEADERS)}

ReceivedHeaders ==
    {FrameHeader(l, k, f, U32(0, 1)) : l \in 0..MaxLen, k \in Kinds, f \in FlagSamples}

\* the bytes behind the first one
Pattern(seed, i) ==
    IF seed = "low"
    THEN <<0, 3, 0, 0, 0, 100, 0, 6, 128, 0, 0, 1>>[((i - 1) % 12) + 1]
    ELSE 256 - (i % 128)

Seeds == {"low", "high"}

\* first bytes: pad lengths around the declared length, and bytes with bit 7
FirstBytes(h) == {0, 1, h.length - 1, h.length, h.length + 1, 128, 255} \cap Byte

\* buffers shorter than, as long as and longer than the declared length
BufferLengths(h) == {h.length - 1, h.length, h.length + 2} \cap Nat

Buffer(first, seed, n) == [i \in 1..n |-> IF i = 1 THEN first ELSE Pattern(seed, i)]

(* received headers: raw bytes *)

LengthBytes == {<<0, 0, 0>>, <<1, 2, 3>>, <<255, 255, 255>>}

IdBytes == {<<0, 0, 0, 0>>, <<6, 7, 8, 9>>, <<127, 255, 255, 255>>,
            <<255, 255, 255, 255>>, <<128, 0, 0, 1>>}

\* every flag byte with every identifier, every kind byte with every length
HeaderBytes ==
    {<<1, 2, 3, 4, f>> \o i : f \in Byte, i \in IdBytes}
    \cup {l \o <<k, f, 0, 0, 0, 3>> : l \in LengthBytes, k \in Byte,
                                       f \in {Flag_empty, END_STREAM}}

\* buffers of every length up to the header and MaxSlack more
HeaderInputs ==
    {TakeFirst(b \o Filled(MaxSlack, x), n) :
        b \in HeaderBytes, x \in Fills,
        n \in {FRAME_HEADER_BYTES, FRAME_HEADER_BYTES + MaxSlack}}
    \cup {TakeFirst(<<1, 2, 3, 4, 1, 6, 7, 8, 9>>, n) : n \in 0..FRAME_HEADER_BYTES}

(* headers to encode *)

\* declared lengths up to 2^24 - 1, and 2^24, which does not fit the field
LengthSamples == {0, 1, 66051, 16777215, 16777216}

HeaderValues ==
    {FrameHeader(l, k, f, i) : l \in LengthSamples, k \in Kinds, f \in Flags,
                               i \in IdSamples}

(* frames to encode *)

BlockBytes == {0, 255}

Blocks == UNION {[1..n -> BlockBytes] : n \in 0..MaxBlock}

Priorities ==
    {Priority(x, d, w) : x \in BOOLEAN, d \in IdSamples, w \in {0, 255}}

SettingSamples == {Setting(i, v) : i \in {3, 6, 768}, v \in U32Samples}

Payloads ==
    {Data(b) : b \in Blocks}
    \cup {Headers(p, b) : p \in {None} \cup {Some(q) : q \in Priorities}, b \in Blocks}
    \cup {PriorityPayload(p) : p \in Priorities}
    \cup {Reset(c) : c \in U32Samples}
    \cup {Settings(s) : s \in UNION {[1..n -> SettingSamples] : n \in 0..MaxSettings}}
    \cup {PushPromise(i, b) : i \in IdSamples, b \in Blocks}
    \cup {Ping(d) : d \in U64Samples}
    \cup {GoAway(i, c, b) : i \in IdSamples, c \in U32Samples, b \in Blocks}
    \cup {WindowUpdate(c) : c \in U32Samples}
    \cup {Continuation(b) : b \in Blocks}
    \cup {Unregistered(b) : b \in Blocks}

FrameIds == {U32(0, 1), U32(32767, 65535), U32(32768, 1)}

Frames == {Frame(rand_for_payload(i, p), p) : i \in FrameIds, p \in Payloads}

----------------------------------------------------------------------------
(* The callers *)

NoValue == [tag |-> "NoValue"]

Init ==
    /\ target \in Targets
    /\ pc = "idle"
    /\ hdr = NoValue
    /\ frame = NoValue
    /\ wire = <<>>
    /\ wrote = NoResult
    /\ hres = NoResult
    /\ pres = NoResult

(* a payload arrives with its header: Payload::parse through Frame::parse *)

Receive ==
    /\ pc = "idle"
    /\ \E h \in ReceivedHeaders :
          \E first \in FirstBytes(h), seed \in Seeds, n \in BufferLengths(h) :
             /\ hdr' = h
             /\ wire' = Buffer(first, seed, n)
    /\ pc' = "received"
    /\ UNCHANGED <<target, frame, wrote, hres, pres>>

FrameParse ==
    /\ pc = "received"
    /\ pres' = Frame_parse(hdr, wire)
    /\ pc' = "parsed"
    /\ UNCHANGED <<target, hdr, frame, wire, wrote, hres>>

Next ==
    \/ Receive
    \/ FrameParse

Spec == Init /\ [][Next]_vars

(* header bytes arrive, or a header is encoded: FrameHeader::parse *)

ReceiveHeader ==
    /\ pc = "idle"
    /\ \E b \in HeaderInputs : wire' = b
    /\ pc' = "received"
    /\ UNCHANGED <<target, hdr, frame, wrote, hres, pres>>

\* what an encoder's result leaves in the buffer and returns to the caller
Encoded(r, buf) ==
    /\ wrote' = IF r.tag = "Panic" THEN Panic ELSE Ok(r.n)
    /\ wire' = IF r.tag = "Panic" THEN buf ELSE r.buf

HeaderEncode ==
    /\ pc = "idle"
    /\ \E h \in HeaderValues, x \in Fills :
          /\ hdr' = h
          /\ Encoded(FrameHeader_encode(h, Filled(FRAME_HEADER_BYTES, x)),
                     Filled(FRAME_HEADER_BYTES, x))
    /\ pc' = "encoded"
    /\ UNCHANGED <<target, frame, hres, pres>>

HeaderParse ==
    /\ pc \in {"received", "encoded"}
    /\ hres' = FrameHeader_parse(wire)
    /\ pc' = IF pc = "received" THEN "header" ELSE "reparsed"
    /\ UNCHANGED <<target, hdr, frame, wire, wrote, pres>>

NextHeader ==
    \/ ReceiveHeader
    \/ HeaderEncode
    \/ HeaderParse

SpecHeader == Init /\ [][NextHeader]_vars

(* a frame is encoded and parsed back, as test_frame_encoding does; a payload
   is encoded and parsed back, as test_randomized_encode does *)

FrameEncode ==
    /\ pc = "idle"
    /\ \E f \in Frames, x \in Fills, n \in 0..MaxSlack :
          /\ frame' = f
          /\ Encoded(Frame_encode(f, Filled(Frame_encoded_len(f) + n, x)),
                     Filled(Frame_encoded_len(f) + n, x))
    /\ pc' = "frame_encoded"
    /\ UNCHANGED <<target, hdr, hres, pres>>

EncodedHeaderParse ==
    /\ pc = "frame_encoded"
    /\ Len(wire) >= FRAME_HEADER_BYTES
    /\ hres' = FrameHeader_parse(TakeFirst(wire, FRAME_HEADER_BYTES))
    /\ pc' = "frame_header"
    /\ UNCHANGED <<target, hdr, frame, wire, wrote, pres>>

EncodedFrameParse ==
    /\ pc = "frame_header"
    /\ hres.tag = "Ok"
    /\ pres' = Frame_parse(hres.val, DropFirst(wire, FRAME_HEADER_BYTES))
    /\ pc' = "frame_parsed"
    /\ UNCHANGED <<target, hdr, frame, wire, wrote, hres>>

PayloadEncode ==
    /\ pc = "idle"
    /\ \E f \in Frames, x \in Fills, n \in 0..MaxSlack :
          /\ frame' = f
          /\ Encoded(Payload_encode(f.payload,
                                    Filled(Payload_encoded_len(f.payload) + n, x)),
                     Filled(Payload_encoded_len(f.payload) + n, x))
    /\ pc' = "payload_encoded"
    /\ UNCHANGED <<target, hdr, hres, pres>>

EncodedPayloadParse ==
    /\ pc = "payload_encoded"
    /\ pres' = Payload_parse(frame.header, wire)
    /\ pc' = "payload_parsed"
    /\ UNCHANGED <<target, hdr, frame, wire, wrote, hres>>

NextFrame ==
    \/ FrameEncode
    \/ EncodedHeaderParse
    \/ EncodedFrameParse
    \/ PayloadEncode
    \/ EncodedPayloadParse

SpecFrame == Init /\ [][NextFrame]_vars

----------------------------------------------------------------------------
(* Properties of FrameHeader::parse and FrameHeader::encode, under SpecHeader *)

\* bit n of byte b is set
Bit(b, n) == (b \div (2 ^ n)) % 2 = 1

\* b has a bit outside 0x2D = 0010 1101
OutsideMask(b) == Bit(b, 1) \/ Bit(b, 4) \/ Bit(b, 6) \/ Bit(b, 7)

\* C8: Flag::new(b) succeeds exactly when b has no bit outside the mask 0x2D,
\* and then the flag set has exactly the bits of b; FrameHeader::parse on a
\* buffer of at least 9 bytes fails with BadFlag(b), b the flag byte (byte 4),
\* exactly when that byte is invalid.
C8_FlagValidity ==
    (pc = "header" /\ Len(wire) >= 9) =>
        LET b == wire[5]
        IN  /\ (Flag_new(b).tag = "Ok") <=> ~OutsideMask(b)
            /\ ~OutsideMask(b) => Flag_new(b) = Ok(b)
            /\ (hres.tag = "Err") <=> OutsideMask(b)
            /\ OutsideMask(b) => hres = Err(BadFlag(b))
            /\ ~OutsideMask(b) => (hres.tag = "Ok" /\ hres.val.flag = b)

\* a header whose flag byte has the one invalid bit 0x10 was refused
C8_Witness ==
    /\ pc = "header"
    /\ Len(wire) >= 9
    /\ wire[5] = 16
    /\ hres = Err(BadFlag(16))

\* C9: FrameHeader::parse fails with Short exactly when the buffer has fewer
\* than 9 bytes; on at least 9 bytes with a valid flag byte it returns
\* length = 65536*b0 + 256*b1 + b2, kind = Kind::new(b3), flags = b4 and the
\* stream id = the big-endian value of b5..b8 with the top bit cleared; the
\* bytes after the ninth have no part in the result.
C9_HeaderDecoding ==
    pc = "header" =>
        /\ (hres = Err(Short)) <=> (Len(wire) < 9)
        /\ (Len(wire) >= 9 /\ ~OutsideMask(wire[5])) =>
              hres = Ok([length |-> 65536 * wire[1] + 256 * wire[2] + wire[3],
                         kind |-> Kind_new(wire[4]),
                         flag |-> wire[5],
                         id |-> [hi |-> (wire[6] % 128) * 256 + wire[7],
                                 lo |-> wire[8] * 256 + wire[9]]])

\* a header with the reserved bit set and bytes behind it was parsed, and the
\* stream id has the bit cleared
C9_Witness ==
    /\ pc = "header"
    /\ Len(wire) > 9
    /\ wire[6] = 255
    /\ hres.tag = "Ok"
    /\ hres.val.id = U32(32767, 65535)

\* C10: FrameHeader::parse of the 9 bytes h.encode wrote returns h, for every
\* header h with length below 2^24, stream id below 2^31, any Kind and any
\* valid flag set; Kind::new(k.encode()) = k for every Kind k.
C10_HeaderRoundTrip ==
    /\ (pc = "reparsed" /\ hdr.length < 16777216 /\ hdr.id.hi < 32768) =>
          hres = Ok(hdr)
    /\ pc = "reparsed" => Kind_new(Kind_encode(hdr.kind)) = hdr.kind

\* an Unregistered header with a three-byte length came back as it was
C10_Witness ==
    /\ pc = "reparsed"
    /\ hdr.kind = "Unregistered"
    /\ hdr.length = 66051
    /\ hdr.flag = 45
    /\ hdr.id = U32(32767, 65535)
    /\ hres = Ok(hdr)

----------------------------------------------------------------------------
(* Properties of Payload::parse, under Spec *)

\* the PADDED and PRIORITY bits of the header's flags
IsPadded(h) == Bit(h.flag, 3)
HasPriority(h) == Bit(h.flag, 5)

\* the least length the flags allow: 1 for PADDED plus 5 for PRIORITY
FlagMinimum(h) == (IF IsPadded(h) THEN 1 ELSE 0) + (IF HasPriority(h) THEN 5 ELSE 0)

\* the buffer holds the declared length and the length is not below the
\* minimum the flags ask for
PassesCommonChecks(h, buf) == Len(buf) >= h.length /\ h.length >= FlagMinimum(h)

\* C3: for a Data, Headers or PushPromise header with PADDED set,
\* header.length >= 1 and a buffer of at least header.length bytes whose first
\* byte (the pad length) equals header.length, Payload::parse returns an error
\* value (TooMuchPadding when the common checks pass) and never faults.
C3_PaddingBoundary ==
    (/\ pc = "parsed"
     /\ hdr.kind \in {"Data", "Headers", "PushPromise"}
     /\ IsPadded(hdr)
     /\ hdr.length >= 1
     /\ Len(wire) >= hdr.length
     /\ wire[1] = hdr.length) =>
        /\ pres.tag = "Err"
        /\ PassesCommonChecks(hdr, wire) => pres = Err(TooMuchPadding(wire[1]))

\* C4: whenever the priority block has to be read from fewer than 5 bytes (a
\* Priority header with header.length < 5, with or without the PRIORITY flag,
\* or a Headers header with PADDED and PRIORITY whose content behind the pad
\* length byte and before the padding is shorter than 5 bytes), Payload::parse
\* returns an error value and does not index out of range.
C4_ShortPriorityBlock ==
    (/\ pc = "parsed"
     /\ \/ hdr.kind = "Priority" /\ hdr.length < 5
        \/ /\ hdr.kind = "Headers"
           /\ IsPadded(hdr)
           /\ HasPriority(hdr)
           /\ PassesCommonChecks(hdr, wire)
           /\ wire[1] < hdr.length
           /\ hdr.length - wire[1] - 1 < 5) =>
        pres.tag = "Err"

\* record i (from 1) of a Settings payload, read big-endian
BigEndianSetting(buf, i) ==
    LET o == 6 * (i - 1)
    IN  [identifier |-> 256 * buf[o + 1] + buf[o + 2],
         value |-> [hi |-> 256 * buf[o + 3] + buf[o + 4],
                    lo |-> 256 * buf[o + 5] + buf[o + 6]]]

\* C6: for a Settings header that passes the common checks, Payload::parse
\* fails with PartialSettingLength when header.length is not a multiple of 6
\* and otherwise returns header.length / 6 settings in wire order, record i
\* with identifier = the big-endian u16 of its bytes 0..1 and value = the
\* big-endian u32 of its bytes 2..5 (00 03 00 00 00 64 is MaxConcurrentStreams
\* = 100); identifiers outside 1..5 are kept and classified unrecognized.
C6_SettingsDecoding ==
    (pc = "parsed" /\ hdr.kind = "Settings" /\ PassesCommonChecks(hdr, wire)) =>
        IF hdr.length % 6 # 0 THEN pres = Err(PartialSettingLength)
        ELSE /\ pres.tag = "Ok"
             /\ pres.val.header = hdr
             /\ pres.val.payload.v = "Settings"
             /\ LET got == pres.val.payload.settings
                IN  /\ Len(got) = hdr.length \div 6
                    /\ \A i \in 1..Len(got) :
                          /\ got[i] = BigEndianSetting(wire, i)
                          /\ Setting_value(got[i]) = BigEndianSetting(wire, i).value
                          /\ (Setting_identifier(got[i]) = None)
                                <=> got[i].identifier \notin 1..5
                    /\ (hdr.length >= 6 /\ TakeFirst(wire, 6) = <<0, 3, 0, 0, 0, 100>>) =>
                          /\ Setting_identifier(got[1]) = Some("MaxConcurrentStreams")
                          /\ Setting_value(got[1]) = U32(0, 100)

\* C7: for a header that passes the common checks, Payload::parse of kind Ping
\* fails with InvalidPayloadLength unless header.length = 8 and otherwise
\* returns the big-endian 64-bit value of the 8 payload bytes; of kind
\* WindowUpdate it fails with InvalidPayloadLength unless header.length = 4 and
\* otherwise returns the big-endian 32-bit value of the 4 payload bytes, top
\* bit kept.
C7_FixedSizeKinds ==
    (pc = "parsed" /\ PassesCommonChecks(hdr, wire)) =>
        /\ hdr.kind = "Ping" =>
              IF hdr.length # 8 THEN pres = Err(InvalidPayloadLength)
              ELSE pres = Ok([header |-> hdr,
                              payload |-> [v |-> "Ping",
                                           data |-> [w3 |-> 256 * wire[1] + wire[2],
                                                     w2 |-> 256 * wire[3] + wire[4],
                                                     w1 |-> 256 * wire[5] + wire[6],
                                                     w0 |-> 256 * wire[7] + wire[8]]]])
        /\ hdr.kind = "WindowUpdate" =>
              IF hdr.length # 4 THEN pres = Err(InvalidPayloadLength)
              ELSE pres = Ok([header |-> hdr,
                              payload |-> [v |-> "WindowUpdate",
                                           increment |-> [hi |-> 256 * wire[1] + wire[2],
                                                          lo |-> 256 * wire[3] + wire[4]]]])

\* a WindowUpdate whose first payload byte has bit 7 set was parsed, and the
\* increment keeps bit 31
C7_Witness ==
    /\ pc = "parsed"
    /\ hdr.kind = "WindowUpdate"
    /\ hdr.length = 4
    /\ wire[1] = 255
    /\ pres.tag = "Ok"
    /\ pres.val.payload.increment.hi >= 32768

----------------------------------------------------------------------------
(* Properties of Frame::encode and Payload::encode, under SpecFrame *)

\* a stream identifier below 2^31
Below2p31(id) == id.hi < 32768

\* every stream identifier of the frame is below 2^31
IdsBelow2p31(f) ==
    /\ Below2p31(f.header.id)
    /\ f.payload.v = "Headers" /\ f.payload.priority.tag = "Some" =>
          Below2p31(f.payload.priority.val.dependency)
    /\ f.payload.v = "Priority" => Below2p31(f.payload.priority.dependency)
    /\ f.payload.v = "PushPromise" => Below2p31(f.payload.promised)
    /\ f.payload.v = "GoAway" => Below2p31(f.payload.last)

\* the payload carries a Priority
CarriesPriority(p) ==
    p.v = "Priority" \/ (p.v = "Headers" /\ p.priority.tag = "Some")

\* the header is the one the round trip asks for
RoundTripHeader(f) ==
    /\ f.header.kind = f.payload.v
    /\ f.header.length = Payload_encoded_len(f.payload)
    /\ f.header.length < 16777216
    /\ f.header.flag = IF CarriesPriority(f.payload) THEN 32 ELSE 0

\* C1: for every Frame f whose header has kind = f.payload.kind(), length =
\* f.payload.encoded_len() (below 2^24), flags = PRIORITY exactly when the
\* payload carries a Priority and empty otherwise, and whose stream identifiers
\* are all below 2^31, encoding f into a large-enough buffer and running
\* FrameHeader::parse on the first 9 bytes and Frame::parse on the rest gives
\* back f; so does Payload::parse on the bytes Payload::encode wrote.
C1_FrameRoundTrip ==
    (pc \in {"frame_header", "frame_parsed", "payload_parsed"}
        /\ RoundTripHeader(frame) /\ IdsBelow2p31(frame)) =>
        /\ pc \in {"frame_header", "frame_parsed"} => hres = Ok(frame.header)
        /\ pc = "frame_parsed" => pres = Ok(frame)
        /\ pc = "payload_parsed" => pres = Ok(frame.payload)

\* a Headers frame with an exclusive priority and a block, encoded into a
\* buffer with bytes to spare, came back as it was
C1_Witness ==
    /\ pc = "frame_parsed"
    /\ frame.payload.v = "Headers"
    /\ frame.payload.priority.tag = "Some"
    /\ frame.payload.priority.val.exclusive
    /\ frame.payload.priority.val.weight = 255
    /\ Len(frame.payload.block) = 2
    /\ Len(wire) > Frame_encoded_len(frame)
    /\ pres = Ok(frame)

\* C2: Payload::encode returns exactly p.encoded_len() for every payload and
\* every buffer of at least that many bytes; Frame::encode returns exactly
\* f.encoded_len() = 9 + f.payload.encoded_len().
C2_EncodedLength ==
    /\ pc \in {"payload_encoded", "payload_parsed"} =>
          wrote = Ok(Payload_encoded_len(frame.payload))
    /\ pc \in {"frame_encoded", "frame_header", "frame_parsed"} =>
          /\ wrote = Ok(Frame_encoded_len(frame))
          /\ wrote = Ok(9 + Payload_encoded_len(frame.payload))

\* a PushPromise payload with a two-byte block was encoded into a buffer with
\* a byte to spare, and 6 bytes were reported
C2_Witness ==
    /\ pc = "payload_encoded"
    /\ frame.payload.v = "PushPromise"
    /\ Len(frame.payload.block) = 2
    /\ Len(wire) > 6
    /\ wrote = Ok(6)

\* the field at bytes at+1..at+4 of the buffer has a clear top bit
TopBitClear(buf, at) == buf[at + 1] < 128

\* the field at bytes at+1..at+4 of the buffer is the big-endian value of id
BigEndianAt(buf, at, id) ==
    SubSeq(buf, at + 1, at + 4) =
        <<id.hi \div 256, id.hi % 256, id.lo \div 256, id.lo % 256>>

----------------------------------------------------------------------------
(* Further properties of Payload::parse, under Spec *)

\* the named Kind of a kind byte in 0..9
NamedKind(b) ==
    <<"Data", "Headers", "Priority", "Reset", "Settings", "PushPromise",
      "Ping", "GoAway", "WindowUpdate", "Continuation">>[b + 1]

\* C11: Kind::new(b) is the named variant for b in 0..9 and Unregistered for
\* every other byte, never an error; Payload::parse of an Unregistered header,
\* with a buffer of at least header.length bytes and header.length not below
\* the flag-derived minimum, succeeds with Payload::Unregistered carrying
\* exactly the first header.length bytes of the buffer, nothing stripped
\* whatever the flags.
C11_UnknownKinds ==
    /\ \A b \in Byte :
          Kind_new(b) = IF b <= 9 THEN NamedKind(b) ELSE "Unregistered"
    /\ (pc = "parsed" /\ hdr.kind = "Unregistered" /\ PassesCommonChecks(hdr, wire)) =>
          pres = Ok([header |-> hdr,
                     payload |-> [v |-> "Unregistered",
                                  block |-> SubSeq(wire, 1, hdr.length)]])

\* an Unregistered payload with PADDED and PRIORITY set, a pad length in its
\* first byte and bytes behind it in the buffer came back whole
C11_Witness ==
    /\ pc = "parsed"
    /\ hdr.kind = "Unregistered"
    /\ hdr.flag = 40
    /\ hdr.length = 7
    /\ Len(wire) = 9
    /\ wire[1] = 1
    /\ pres.tag = "Ok"
    /\ pres.val.payload.block = SubSeq(wire, 1, 7)

\* the minimum the flags ask for, as the claim lists it
ListedMinimum(h) ==
    CASE IsPadded(h) /\ HasPriority(h) -> 6
      [] ~IsPadded(h) /\ HasPriority(h) -> 5
      [] IsPadded(h) /\ ~HasPriority(h) -> 1
      [] OTHER -> 0

\* the errors of the kind-specific parsers
KindSpecificError(r) ==
    /\ r.tag = "Err"
    /\ r.err.e \in {"TooMuchPadding", "PartialSettingLength", "InvalidPayloadLength"}

\* C12: for every kind, Payload::parse fails with Short when the buffer holds
\* fewer than header.length bytes; otherwise it fails with
\* PayloadLengthTooShort when header.length is below the flag-derived minimum
\* (6 for PADDED and PRIORITY, 5 for PRIORITY alone, 1 for PADDED alone, 0 for
\* neither); both checks come before every kind-specific check, so a
\* kind-specific error or a fault is seen only when both pass.
C12_CommonChecks ==
    pc = "parsed" =>
        /\ Len(wire) < hdr.length => pres = Err(Short)
        /\ (Len(wire) >= hdr.length /\ hdr.length < ListedMinimum(hdr)) =>
              pres = Err(PayloadLengthTooShort)
        /\ (KindSpecificError(pres) \/ pres.tag = "Panic") =>
              (Len(wire) >= hdr.length /\ hdr.length >= ListedMinimum(hdr))
        /\ pres = Err(Short) <=> Len(wire) < hdr.length

\* a Ping header with PADDED and PRIORITY and length 5, which is below the
\* flags' minimum and not 8, on a buffer of 4 bytes: Short came first
C12_Witness ==
    /\ pc = "parsed"
    /\ hdr.kind = "Ping"
    /\ hdr.flag = 40
    /\ hdr.length = 5
    /\ Len(wire) = 4
    /\ pres = Err(Short)

\* the payload bytes at offsets 1 up to but excluding header.length - p, for
\* the pad length p in the first payload byte
Unpadded(h, buf) == SubSeq(buf, 2, h.length - buf[1])

\* the payload bytes the header declares
Declared(h, buf) == SubSeq(buf, 1, h.length)

\* C13: for Data, Headers and PushPromise headers that pass the common checks
\* with PADDED set and pad length p (the first payload byte), Payload::parse
\* fails with TooMuchPadding(p) when p > header.length; when p < header.length
\* the content handed on is exactly the payload bytes at offsets 1 up to but
\* excluding header.length - p (header.length - p - 1 bytes), which is the
\* data of a Data frame, the block of a Headers frame (behind the 5 priority
\* bytes when PRIORITY is set) and, behind the 4 bytes of the promised id, the
\* block of a PushPromise frame; with PADDED clear the payload is handed on
\* unchanged.
C13_PaddingRemoval ==
    (/\ pc = "parsed"
     /\ hdr.kind \in {"Data", "Headers", "PushPromise"}
     /\ PassesCommonChecks(hdr, wire)) =>
        IF IsPadded(hdr)
        THEN /\ wire[1] > hdr.length => pres = Err(TooMuchPadding(wire[1]))
             /\ wire[1] < hdr.length =>
                   LET content == Unpadded(hdr, wire)
                   IN  /\ Len(content) = hdr.length - wire[1] - 1
                       /\ trim_padding(ParserSettings(hdr), hdr, Declared(hdr, wire))
                             = Ok(content)
                       /\ hdr.kind = "Data" =>
                             pres = Ok([header |-> hdr,
                                        payload |-> [v |-> "Data", data |-> content]])
                       /\ (hdr.kind = "Headers" /\ ~HasPriority(hdr)) =>
                             pres = Ok([header |-> hdr,
                                        payload |-> [v |-> "Headers",
                                                     priority |-> None,
                                                     block |-> content]])
                       /\ (hdr.kind = "Headers" /\ HasPriority(hdr) /\ Len(content) >= 5) =>
                             /\ pres.tag = "Ok"
                             /\ pres.val.payload.block = SubSeq(content, 6, Len(content))
                             /\ pres.val.payload.priority.val.weight = content[5]
                       /\ (hdr.kind = "PushPromise" /\ Len(content) >= 4) =>
                             /\ pres.tag = "Ok"
                             /\ pres.val.payload.block = SubSeq(content, 5, Len(content))
        ELSE /\ trim_padding(ParserSettings(hdr), hdr, Declared(hdr, wire))
                   = Ok(Declared(hdr, wire))
             /\ hdr.kind = "Data" =>
                   pres = Ok([header |-> hdr,
                              payload |-> [v |-> "Data", data |-> Declared(hdr, wire)]])

\* a padded Data payload of 6 bytes with pad length 1, in a buffer with bytes
\* behind it, gave the four bytes between the pad length and the padding
C13_Witness ==
    /\ pc = "parsed"
    /\ hdr.kind = "Data"
    /\ hdr.flag = 8
    /\ hdr.length = 6
    /\ Len(wire) = 8
    /\ wire[1] = 1
    /\ pres.tag = "Ok"
    /\ pres.val.payload.data = <<wire[2], wire[3], wire[4], wire[5]>>

\* bytes of a following frame
FollowingBytes == {<<>>, <<0>>, <<255, 1>>, <<6, 128, 0, 9>>}

\* C14: for any header h and any two buffers of at least h.length bytes that
\* agree on their first h.length bytes, Payload::parse returns the same result
\* (the same payload, the same error): whatever follows the first h.length
\* bytes of the buffer, the result is the one the parse of this buffer gave.
C14_TrailingBytesIgnored ==
    (pc = "parsed" /\ Len(wire) >= hdr.length) =>
        \A t \in FollowingBytes :
            Frame_parse(hdr, SubSeq(wire, 1, hdr.length) \o t) = pres

\* a Continuation payload of 3 bytes was parsed from a buffer of 5 bytes, and
\* the block is the first 3
C14_Witness ==
    /\ pc = "parsed"
    /\ hdr.kind = "Continuation"
    /\ hdr.length = 3
    /\ Len(wire) = 5
    /\ pres.tag = "Ok"
    /\ pres.val.payload.block = <<wire[1], wire[2], wire[3]>>

\* the big-endian u32 of the four bytes of buf from offset at
BigEndianU32(buf, at) ==
    [hi |-> 256 * buf[at + 1] + buf[at + 2], lo |-> 256 * buf[at + 3] + buf[at + 4]]

\* the same with the top bit cleared
BigEndianU31(buf, at) ==
    [hi |-> 256 * (buf[at + 1] % 128) + buf[at + 2],
     lo |-> 256 * buf[at + 3] + buf[at + 4]]

\* padding removal has something to return: PADDED is clear, or the pad
\* length is below the declared length
PaddingRemoved(h, buf) == ~IsPadded(h) \/ buf[1] < h.length

\* what is left behind the padding removal
Remaining(h, buf) == IF IsPadded(h) THEN Unpadded(h, buf) ELSE Declared(h, buf)

\* C15: for a header that passes the common checks, Reset fails with
\* PayloadLengthTooShort exactly when header.length < 4 and otherwise yields
\* the big-endian u32 of the first 4 payload bytes; GoAway fails with
\* PayloadLengthTooShort exactly when header.length < 8 and otherwise yields
\* the last stream id = the first 4 bytes with the top bit cleared, the error
\* code = the next 4 bytes and the other header.length - 8 bytes as debug
\* data; PushPromise, once the padding is removed, fails with
\* PayloadLengthTooShort exactly when fewer than 4 bytes remain and otherwise
\* yields the promised id = the first 4 remaining bytes with the top bit
\* cleared and the rest as the header block.
C15_PerKindMinimum ==
    (pc = "parsed" /\ PassesCommonChecks(hdr, wire)) =>
        /\ hdr.kind = "Reset" =>
              IF hdr.length < 4 THEN pres = Err(PayloadLengthTooShort)
              ELSE pres = Ok([header |-> hdr,
                              payload |-> [v |-> "Reset",
                                           err |-> BigEndianU32(wire, 0)]])
        /\ hdr.kind = "GoAway" =>
              IF hdr.length < 8 THEN pres = Err(PayloadLengthTooShort)
              ELSE pres = Ok([header |-> hdr,
                              payload |-> [v |-> "GoAway",
                                           last |-> BigEndianU31(wire, 0),
                                           error |-> BigEndianU32(wire, 4),
                                           data |-> SubSeq(wire, 9, hdr.length)]])
        /\ (hdr.kind = "PushPromise" /\ PaddingRemoved(hdr, wire)) =>
              LET rest == Remaining(hdr, wire)
              IN  IF Len(rest) < 4 THEN pres = Err(PayloadLengthTooShort)
                  ELSE pres = Ok([header |-> hdr,
                                  payload |-> [v |-> "PushPromise",
                                               promised |-> BigEndianU31(rest, 0),
                                               block |-> SubSeq(rest, 5, Len(rest))]])

\* a GoAway payload of 9 bytes whose first byte has bit 7 set was parsed: the
\* last stream id has the bit cleared and one byte of debug data follows
C15_Witness ==
    /\ pc = "parsed"
    /\ hdr.kind = "GoAway"
    /\ hdr.length = 9
    /\ wire[1] = 255
    /\ pres.tag = "Ok"
    /\ pres.val.payload.last.hi < 32768
    /\ pres.val.payload.error = BigEndianU32(wire, 4)
    /\ pres.val.payload.data = <<wire[9]>>

\* the kinds that read a fixed prefix and ignore further payload bytes
FixedPrefixKinds == {"Reset", "Priority"}

\* C16: whenever Payload::parse succeeds on a header and a buffer, the
\* returned payload's kind() is the header's kind and its encoded_len() is at
\* most header.length, with equality whenever the PADDED flag is clear and the
\* kind is neither Reset nor Priority.
C16_ParsedWithinDeclaredLength ==
    (pc = "parsed" /\ pres.tag = "Ok") =>
        /\ pres = Ok(Frame(hdr, Payload_parse(hdr, wire).val))
        /\ Payload_kind(pres.val.payload) = hdr.kind
        /\ Payload_encoded_len(pres.val.payload) <= hdr.length
        /\ (~IsPadded(hdr) /\ hdr.kind \notin FixedPrefixKinds) =>
              Payload_encoded_len(pres.val.payload) = hdr.length

\* a Headers payload of 7 bytes with PRIORITY set and PADDED clear was
\* parsed: 5 priority bytes and a 2-byte block, 7 bytes encoded
C16_Witness ==
    /\ pc = "parsed"
    /\ hdr.kind = "Headers"
    /\ hdr.flag = PRIORITY
    /\ hdr.length = 7
    /\ pres.tag = "Ok"
    /\ pres.val.payload.priority.tag = "Some"
    /\ Len(pres.val.payload.block) = 2
    /\ Payload_encoded_len(pres.val.payload) = 7

====
